---- MODULE Spec2Model ----
(***************************************************************************)
(* watch_n_serve (src/main.ts): a Watcher that debounces raw filesystem    *)
(* events into "updated" notifications, and a Server that serves files,    *)
(* upgrades /.watch_n_serve/events to a WebSocket and broadcasts "updated" *)
(* to the registered sockets.                                              *)
(*                                                                         *)
(* The program runs on one event loop: every action below is one           *)
(* run-to-completion step (a synchronous call, or a callback / async       *)
(* continuation from one suspension point to the next).  Time is the       *)
(* event loop's clock in milliseconds; it moves from one instant at which  *)
(* something can happen (a timer falls due, a raw event may arrive) to the *)
(* next.                                                                   *)
(***************************************************************************)
EXTENDS Integers, Sequences, FiniteSets, TLC

\* ------------------------------------------------------------------ bounds

\* Length of a served file, in units of text (see FileUnits).
MaxFileLen == 3

\* Raw filesystem events delivered while the clients only open push channels.
MaxBroadcastEvents == 2

\* Raw filesystem events the environment delivers in one run of the Watcher.
MaxEvents == 3
\* Raw filesystem events the environment delivers in one run of the program.
MaxServerEvents == 1
\* watch() calls made on one Watcher.
MaxWatchCalls == 3
\* What the clients do in one run: each connection made and each further
\* request sent on a connection counts for one.
MaxRequests == 2

\* Instants (ms) at which the filesystem may deliver raw events to a Watcher
\* used on its own, and to the Watcher of the program; in both an event may
\* also arrive at the instant a timer falls due.
ArrivalTimes == {0, 50, 120, 320, 321}
ServerArrivalTimes == {0}

\* ------------------------------------------------------- program constants

\* options.minimumDelayMS ?? 200
DefaultMinimumDelayMS == 200
\* Values of options.minimumDelayMS a caller of the Watcher passes
\* (absent: the default).
DelayOptions == {DefaultMinimumDelayMS, 70}

\* ------------------------------------------------------------------- state

VARIABLES
    now,            \* event-loop clock, ms
    fsBudget,       \* raw events the filesystem has yet to deliver
    fsTimes,        \* instants at which it may deliver them
    minimumDelayMS, \* Watcher.minimumDelayMS
    hasAbortSignal, \* Watcher.abortSignal is defined
    aborted,        \* the abort signal has fired
    watching,       \* Watcher.watching
    watchCalls,     \* number of watch() calls made so far
    sessions,       \* one entry per activation of watch(): its Deno.watchFs
                    \* stream (open or closed) and its closure's `outstanding`
    timers,         \* pending setTimeout(update, ...) calls, in scheduling order
    arrivals,       \* history: raw events ingested, [at, session]
    notified,       \* history: "updated" events dispatched
    alive,          \* the process has not died of an uncaught error
    hasWatcher,     \* Server.watcher is defined (options.watch)
    mainPc,         \* the caller of serve(): "start", then "returned"
    listeners,      \* "updated" listeners registered on the Watcher
    acceptLoop,     \* the task of lines 122-168: "none" or "running"
    reloadClients,  \* Server.reloadClients, sockets named by their connection
    socket,         \* per connection, its WebSocket: "none", "connecting",
                    \* "open" or "closed"
    task,           \* per connection, the task of lines 124-166
    reqs,           \* per connection, the requests read from it so far
    asks,           \* what the clients ask for: a set of request kinds
    lateAccepts,    \* history: connections accepted after some task had failed
    sends,          \* the socket.send("updated") calls of the latest dispatch
    sentCount,      \* history: per socket, the send calls made on it
    served,         \* one file request taken alone: what was read, and the
                    \* response body made from it (lines 138-155)
    streamFailed    \* history: a Deno.watchFs stream has failed

watcherVars == <<now, fsBudget, fsTimes, minimumDelayMS, hasAbortSignal, aborted,
                 watching, watchCalls, sessions, timers, arrivals, notified>>

serverVars == <<asks, alive, hasWatcher, mainPc, listeners, acceptLoop,
                reloadClients, socket, task, reqs, lateAccepts>>

observed == <<sends, sentCount>>

otherVars == <<served, streamFailed>>

vars == <<watcherVars, serverVars, observed, otherVars>>

Conns == 1 .. MaxRequests

\* No file request is being looked at on its own.
NotServed == [state |-> "none"]

\* --------------------------------------------------------------- helpers

Min(S) == CHOOSE x \in S : \A y \in S : x <= y

\* ---------------------------------------------------------------- Watcher

\* The minimum-delay timer list of the event loop fires in scheduling order;
\* a timer is due once the clock has reached its deadline.
TimerDue == timers # <<>> /\ Head(timers).due <= now

StreamOpen == \E s \in DOMAIN sessions : sessions[s].open

\* The instants after `now` at which something can happen.
NextInstants ==
    {timers[i].due : i \in DOMAIN timers}
      \cup (IF StreamOpen /\ fsBudget > 0 THEN {t \in fsTimes : t > now} ELSE {})

\* watch() without the `if (!this.watching)` test.
WatchCallUnguarded ==
    /\ watchCalls < MaxWatchCalls
    /\ watchCalls' = watchCalls + 1
    /\ watching' = TRUE
    /\ sessions' = Append(sessions,
           [open |-> TRUE, outstanding |-> 0, abortListener |-> hasAbortSignal])
    /\ UNCHANGED <<now, fsBudget, fsTimes, minimumDelayMS, hasAbortSignal, aborted,
                   timers, arrivals, notified>>

\* Watcher.watch() (lines 25-61): its effect on the Watcher.
WatchCall ==
    /\ watchCalls < MaxWatchCalls
    /\ watchCalls' = watchCalls + 1
    /\ IF ~watching
         THEN /\ watching' = TRUE
              /\ sessions' = Append(sessions,
                     [open |-> TRUE, outstanding |-> 0, abortListener |-> hasAbortSignal])
         ELSE UNCHANGED <<watching, sessions>>
    /\ UNCHANGED <<now, fsBudget, fsTimes, minimumDelayMS, hasAbortSignal, aborted,
                   timers, arrivals, notified>>

\* watch() called on a Watcher used on its own.
Watch ==
    /\ WatchCall
    /\ UNCHANGED <<serverVars, observed, otherVars>>

\* An abort handler that also drops the pending debounce timers.
AbortClearingTimers ==
    /\ hasAbortSignal
    /\ ~aborted
    /\ aborted' = TRUE
    /\ sessions' = [s \in DOMAIN sessions |->
                      IF sessions[s].abortListener
                        THEN [sessions[s] EXCEPT !.open = FALSE, !.outstanding = 0]
                        ELSE sessions[s]]
    /\ watching' = IF \E s \in DOMAIN sessions : sessions[s].abortListener
                     THEN FALSE ELSE watching
    /\ timers' = <<>>
    /\ UNCHANGED <<now, fsBudget, fsTimes, minimumDelayMS, hasAbortSignal, watchCalls,
                   arrivals, notified>>
    /\ UNCHANGED <<serverVars, observed, otherVars>>

\* The "abort" listeners of lines 50-54: every activation registered one.
\* An AbortSignal fires "abort" once; a listener added afterwards never runs.
Abort ==
    /\ hasAbortSignal
    /\ ~aborted
    /\ aborted' = TRUE
    /\ sessions' = [s \in DOMAIN sessions |->
                      IF sessions[s].abortListener
                        THEN [sessions[s] EXCEPT !.open = FALSE]
                        ELSE sessions[s]]
    /\ watching' = IF \E s \in DOMAIN sessions : sessions[s].abortListener
                     THEN FALSE ELSE watching
    /\ UNCHANGED <<now, fsBudget, fsTimes, minimumDelayMS, hasAbortSignal, watchCalls,
                   timers, arrivals, notified>>
    /\ UNCHANGED <<serverVars, observed, otherVars>>

\* The loop body with the timer set to twice the delay.
RawEventDoubleDelay ==
    /\ alive
    /\ fsBudget > 0
    /\ \E s \in DOMAIN sessions :
         /\ sessions[s].open
         /\ sessions' = [sessions EXCEPT ![s].outstanding = @ + 1]
         /\ timers' = Append(timers, [due |-> now + 2 * minimumDelayMS, session |-> s])
         /\ arrivals' = Append(arrivals, [at |-> now, session |-> s])
    /\ fsBudget' = fsBudget - 1
    /\ UNCHANGED <<now, fsTimes, minimumDelayMS, hasAbortSignal, aborted, watching,
                   watchCalls, notified>>
    /\ UNCHANGED <<serverVars, observed, otherVars>>

\* The loop body without `++outstanding`.
RawEventUncounted ==
    /\ alive
    /\ fsBudget > 0
    /\ \E s \in DOMAIN sessions :
         /\ sessions[s].open
         /\ timers' = Append(timers, [due |-> now + minimumDelayMS, session |-> s])
         /\ arrivals' = Append(arrivals, [at |-> now, session |-> s])
    /\ fsBudget' = fsBudget - 1
    /\ UNCHANGED <<now, fsTimes, minimumDelayMS, hasAbortSignal, aborted, watching,
                   watchCalls, sessions, notified>>
    /\ UNCHANGED <<serverVars, observed, otherVars>>

\* The loop body coalescing at ingestion: an event that finds a timer pending
\* is counted in with it and gets no timer of its own.
RawEventCoalesced ==
    /\ alive
    /\ fsBudget > 0
    /\ \E s \in DOMAIN sessions :
         /\ sessions[s].open
         /\ IF sessions[s].outstanding > 0
              THEN UNCHANGED <<sessions, timers>>
              ELSE /\ sessions' = [sessions EXCEPT ![s].outstanding = @ + 1]
                   /\ timers' = Append(timers, [due |-> now + minimumDelayMS, session |-> s])
         /\ arrivals' = Append(arrivals, [at |-> now, session |-> s])
    /\ fsBudget' = fsBudget - 1
    /\ UNCHANGED <<now, fsTimes, minimumDelayMS, hasAbortSignal, aborted, watching,
                   watchCalls, notified>>
    /\ UNCHANGED <<serverVars, observed, otherVars>>

\* The loop body starting the count again at every event (`outstanding = 1`).
RawEventResetsCount ==
    /\ alive
    /\ fsBudget > 0
    /\ \E s \in DOMAIN sessions :
         /\ sessions[s].open
         /\ sessions' = [sessions EXCEPT ![s].outstanding = 1]
         /\ timers' = Append(timers, [due |-> now + minimumDelayMS, session |-> s])
         /\ arrivals' = Append(arrivals, [at |-> now, session |-> s])
    /\ fsBudget' = fsBudget - 1
    /\ UNCHANGED <<now, fsTimes, minimumDelayMS, hasAbortSignal, aborted, watching,
                   watchCalls, notified>>
    /\ UNCHANGED <<serverVars, observed, otherVars>>

\* One iteration of `for await (const event of watcher)` (lines 41-45).
RawEvent ==
    /\ alive
    /\ fsBudget > 0
    /\ \E s \in DOMAIN sessions :
         /\ sessions[s].open
         /\ sessions' = [sessions EXCEPT ![s].outstanding = @ + 1]
         /\ timers' = Append(timers, [due |-> now + minimumDelayMS, session |-> s])
         /\ arrivals' = Append(arrivals, [at |-> now, session |-> s])
    /\ fsBudget' = fsBudget - 1
    /\ UNCHANGED <<now, fsTimes, minimumDelayMS, hasAbortSignal, aborted, watching,
                   watchCalls, notified>>
    /\ UNCHANGED <<serverVars, observed, otherVars>>

\* A send only to the sockets that are open.
BroadcastOpenOnly ==
    LET open == SelectSeq(reloadClients, LAMBDA c : socket[c] = "open")
    IN [i \in DOMAIN open |-> [socket |-> open[i], ok |-> TRUE]]

\* The listener taking a socket out of reloadClients when its send throws:
\* the loop runs over the array it is shortening, so the element after a
\* failing one moves into its place and is passed over.
RECURSIVE LoopWhileRemoving(_, _)
LoopWhileRemoving(arr, i) ==
    IF i > Len(arr) THEN <<>>
    ELSE IF socket[arr[i]] = "open"
           THEN <<[socket |-> arr[i], ok |-> TRUE]>> \o LoopWhileRemoving(arr, i + 1)
           ELSE <<[socket |-> arr[i], ok |-> FALSE]>>
                    \o LoopWhileRemoving(SubSeq(arr, 1, i - 1) \o SubSeq(arr, i + 1, Len(arr)),
                                         i + 1)

BroadcastRemovingFailed == LoopWhileRemoving(reloadClients, 1)

\* The listener without its try/catch: the first send that throws ends the loop.
BroadcastStopsAtFailure ==
    LET failing == {i \in DOMAIN reloadClients : socket[reloadClients[i]] # "open"}
        last == IF failing = {} THEN Len(reloadClients) ELSE Min(failing)
    IN [i \in 1 .. last |->
          [socket |-> reloadClients[i], ok |-> socket[reloadClients[i]] = "open"]]

\* The "updated" listener of lines 104-112: one socket.send("updated") per
\* element of reloadClients, in order; send throws unless the socket is open,
\* and the throw is caught.
Broadcast ==
    [i \in DOMAIN reloadClients |->
        [socket |-> reloadClients[i], ok |-> socket[reloadClients[i]] = "open"]]

\* A dispatch whose listener puts its sends off to a later task.
DispatchDeferred == <<>>

\* this.dispatchEvent(new WatcherUpdatedEvent()): every registered listener
\* runs before dispatchEvent returns.
Dispatch == IF listeners > 0 THEN Broadcast ELSE <<>>

\* The send calls counted per socket.
Counted(calls) ==
    [c \in Conns |-> sentCount[c]
                       + Cardinality({i \in DOMAIN calls : calls[i].socket = c})]

\* What is recorded of a dispatch.
Notification(s) ==
    [at |-> now, session |-> s, afterAbort |-> aborted]

\* `update` dispatching on every callback, whatever `outstanding` is.
UpdateEveryCallback ==
    /\ alive
    /\ TimerDue
    /\ LET s == Head(timers).session
           o == sessions[s].outstanding - 1
       IN /\ sessions' = [sessions EXCEPT ![s].outstanding = o]
          /\ timers' = Tail(timers)
          /\ notified' = Append(notified, Notification(s))
          /\ sends' = Dispatch
          /\ sentCount' = Counted(Dispatch)
    /\ UNCHANGED <<now, fsBudget, fsTimes, minimumDelayMS, hasAbortSignal, aborted,
                   watching, watchCalls, arrivals>>
    /\ UNCHANGED <<serverVars, otherVars>>

\* The timer callback `update` (lines 31-36).
Update ==
    /\ alive
    /\ TimerDue
    /\ LET s == Head(timers).session
           o == sessions[s].outstanding - 1
       IN /\ sessions' = [sessions EXCEPT ![s].outstanding = o]
          /\ timers' = Tail(timers)
          /\ IF o = 0
               THEN /\ notified' = Append(notified, Notification(s))
                    /\ sends' = Dispatch
                    /\ sentCount' = Counted(Dispatch)
               ELSE UNCHANGED <<notified, sends, sentCount>>
    /\ UNCHANGED <<now, fsBudget, fsTimes, minimumDelayMS, hasAbortSignal, aborted,
                   watching, watchCalls, arrivals>>
    /\ UNCHANGED <<serverVars, otherVars>>

\* The clock moves to the next instant; a due timer runs first.
Advance ==
    /\ alive
    /\ ~TimerDue
    /\ NextInstants # {}
    /\ now' = Min(NextInstants)
    /\ UNCHANGED <<fsBudget, fsTimes, minimumDelayMS, hasAbortSignal, aborted, watching,
                   watchCalls, sessions, timers, arrivals, notified>>
    /\ UNCHANGED <<serverVars, observed, otherVars>>

\* ----------------------------------------------------------------- Server

\* Paths are sequences of tokens; ".html" is a token of its own.
reloadEventPath == <<"/", ".watch_n_serve", "/", "events">>

\* Deno.args[0]
root == <<"root">>

\* The files under the root.
Files == {root \o <<"/", "index", ".html">>, root \o <<"/", "a", ".txt">>}

\* What a client may ask for: a pathname, and whether the request is a valid
\* WebSocket upgrade request.
RequestKinds ==
    {[path |-> reloadEventPath, ws |-> TRUE],
     [path |-> reloadEventPath, ws |-> FALSE],
     [path |-> <<"/">>, ws |-> FALSE],
     [path |-> <<"/", "nope">>, ws |-> FALSE]}

PushRequestKinds == {rq \in RequestKinds : rq.path = reloadEventPath}

EndsWith(p, tok) == p # <<>> /\ p[Len(p)] = tok

\* Line 138.
ResolvePath(pathname) ==
    root \o (IF EndsWith(pathname, "/")
               THEN pathname \o <<"index", ".html">>
               ELSE pathname)

\* Array.prototype.indexOf: 0-based, -1 when absent.
IndexOf(arr, x) ==
    IF \E i \in DOMAIN arr : arr[i] = x
      THEN Min({i \in DOMAIN arr : arr[i] = x}) - 1
      ELSE -1

\* Array.prototype.splice(start, 1): a negative start counts from the end.
Splice1(arr, start) ==
    LET from == IF start < 0
                  THEN (IF Len(arr) + start < 0 THEN 0 ELSE Len(arr) + start)
                  ELSE (IF start > Len(arr) THEN Len(arr) ELSE start)
    IN SubSeq(arr, 1, from) \o SubSeq(arr, from + 2, Len(arr))

Handling(c) == {k \in DOMAIN reqs[c] : reqs[c][k].phase \notin {"responded", "failed"}}

RECURSIVE SumLen(_)
SumLen(S) == IF S = {} THEN 0
             ELSE LET c == CHOOSE x \in S : TRUE
                  IN Len(reqs[c]) + SumLen(S \ {c})

RequestsRead == SumLen(Conns)

\* Connections accepted that have sent no request yet.
Idle == Cardinality({c \in Conns : task[c] # "none" /\ reqs[c] = <<>>})

SomeTaskFailed == \E d \in Conns : task[d] = "failed"

\* serve() awaiting its accept loop instead of returning.
ServeAwaitingLoop ==
    /\ alive
    /\ mainPc = "start"
    /\ listeners' = IF hasWatcher THEN listeners + 1 ELSE listeners
    /\ acceptLoop' = "running"
    /\ IF hasWatcher
         THEN WatchCall
         ELSE UNCHANGED <<now, fsBudget, fsTimes, minimumDelayMS, hasAbortSignal, aborted,
                          watching, watchCalls, sessions, timers, arrivals,
                          notified>>
    /\ mainPc' = "serving"
    /\ UNCHANGED <<asks, alive, hasWatcher, reloadClients, socket, task, reqs, lateAccepts,
                   observed, otherVars>>

\* Server.serve() (lines 102-175), called by the program (line 189): it
\* registers the listener, opens the listener socket, starts the accept loop,
\* which suspends at its first await, calls watch() and returns.
Serve ==
    /\ alive
    /\ mainPc = "start"
    /\ listeners' = IF hasWatcher THEN listeners + 1 ELSE listeners
    /\ acceptLoop' = "running"
    /\ IF hasWatcher
         THEN WatchCall
         ELSE UNCHANGED <<now, fsBudget, fsTimes, minimumDelayMS, hasAbortSignal, aborted,
                          watching, watchCalls, sessions, timers, arrivals,
                          notified>>
    /\ mainPc' = "returned"
    /\ UNCHANGED <<asks, alive, hasWatcher, reloadClients, socket, task, reqs, lateAccepts,
                   observed, otherVars>>

\* One iteration of the accept loop (lines 123-167): the connection's task is
\* started and runs to its first await, the one for the first request.
Accept(c) ==
    /\ alive
    /\ acceptLoop = "running"
    /\ task[c] = "none"
    /\ \A d \in Conns : d < c => task[d] # "none"
    /\ RequestsRead + Idle < MaxRequests
    /\ task' = [task EXCEPT ![c] = "awaitRequest"]
    /\ lateAccepts' = IF SomeTaskFailed THEN lateAccepts \cup {c} ELSE lateAccepts
    /\ UNCHANGED <<watcherVars, asks, alive, hasWatcher, mainPc, listeners, acceptLoop,
                   reloadClients, socket, reqs, observed, otherVars>>

\* The request event `re` as the loop body first sees it.
NewRequest(rq) ==
    [path |-> rq.path, ws |-> rq.ws, resolved |-> <<>>, phase |-> "reading",
     readFailed |-> FALSE, attempt |-> 0, status |-> 0, body |-> "none"]

\* The loop body from line 128 to its first await, for request rq.
StartRequest(c, rq) ==
    IF hasWatcher /\ rq.path = reloadEventPath
      THEN IF rq.ws
             THEN \* lines 131-136: upgraded, registered, awaiting respondWith
                  /\ reloadClients' = Append(reloadClients, c)
                  /\ socket' = [socket EXCEPT ![c] = "connecting"]
                  /\ reqs' = [reqs EXCEPT ![c] = Append(@,
                        [NewRequest(rq) EXCEPT !.phase = "respondUpgrade",
                             !.attempt = 1, !.status = 101, !.body = "upgrade"])]
             ELSE \* upgradeWebSocket throws: line 159
                  /\ reqs' = [reqs EXCEPT ![c] = Append(@,
                        [NewRequest(rq) EXCEPT !.phase = "respond404",
                             !.attempt = 1, !.status = 404, !.body = ""])]
                  /\ UNCHANGED <<reloadClients, socket>>
      ELSE \* lines 138-139: awaiting readFile
           /\ reqs' = [reqs EXCEPT ![c] = Append(@,
                 [NewRequest(rq) EXCEPT !.resolved = ResolvePath(rq.path)])]
           /\ UNCHANGED <<reloadClients, socket>>

\* The loop taking the next request while the last one is still being handled.
NextRequestPipelined(c) ==
    /\ alive
    /\ task[c] \in {"awaitRequest", "handling"}
    /\ reqs[c] = <<>> \/ RequestsRead + Idle < MaxRequests
    /\ \E rq \in asks : StartRequest(c, rq)
    /\ task' = [task EXCEPT ![c] = "handling"]
    /\ UNCHANGED <<watcherVars, asks, alive, hasWatcher, mainPc, listeners, acceptLoop,
                   lateAccepts, observed, otherVars>>

\* `for await (const re of httpConnection)` yields a request (line 127) and
\* the body runs to its first await.
NextRequest(c) ==
    /\ alive
    /\ task[c] = "awaitRequest"
    /\ reqs[c] = <<>> \/ RequestsRead + Idle < MaxRequests
    /\ \E rq \in asks : StartRequest(c, rq)
    /\ task' = [task EXCEPT ![c] = "handling"]
    /\ UNCHANGED <<watcherVars, asks, alive, hasWatcher, mainPc, listeners, acceptLoop,
                   lateAccepts, observed, otherVars>>

\* An error escaping the connection's task: no catch at line 163, so the
\* rejection is unhandled and ends the process.
TaskErrorUncaught(c) ==
    /\ task' = [task EXCEPT ![c] = "failed"]
    /\ alive' = FALSE
    /\ acceptLoop' = "none"

\* The catch of lines 163-165: the error of connection c is logged and its
\* task ends.
TaskError(c) ==
    /\ task' = [task EXCEPT ![c] = "failed"]
    /\ UNCHANGED <<alive, acceptLoop>>

\* A failed read answered through the outer catch instead of line 159.
ReadDoneUncaught(c) ==
    /\ alive
    /\ \E k \in Handling(c) :
         /\ reqs[c][k].phase = "reading"
         /\ \E ok \in (IF reqs[c][k].resolved \in Files THEN BOOLEAN ELSE {FALSE}) :
              IF ok
                THEN /\ reqs' = [reqs EXCEPT ![c][k] =
                           [@ EXCEPT !.phase = "respond200", !.attempt = 1,
                                     !.status = 200, !.body = "file"]]
                     /\ UNCHANGED <<task, alive, acceptLoop>>
                ELSE /\ reqs' = [reqs EXCEPT ![c][k] =
                           [@ EXCEPT !.phase = "failed", !.readFailed = TRUE]]
                     /\ TaskError(c)
    /\ UNCHANGED <<watcherVars, asks, hasWatcher, mainPc, listeners, reloadClients,
                   socket, lateAccepts, observed, otherVars>>

\* `await Deno.readFile(path)` settles (line 139) and the body runs to its
\* next await: respondWith of the file (line 155), or of the 404 (line 159).
ReadDone(c) ==
    /\ alive
    /\ \E k \in Handling(c) :
         /\ reqs[c][k].phase = "reading"
         /\ \E ok \in (IF reqs[c][k].resolved \in Files THEN BOOLEAN ELSE {FALSE}) :
              reqs' = [reqs EXCEPT ![c][k] =
                 IF ok
                   THEN [@ EXCEPT !.phase = "respond200", !.attempt = 1, !.status = 200,
                            !.body = IF hasWatcher /\ EndsWith(reqs[c][k].resolved, ".html")
                                       THEN "file+script" ELSE "file"]
                   ELSE [@ EXCEPT !.phase = "respond404", !.readFailed = TRUE,
                            !.attempt = 1, !.status = 404, !.body = ""]]
    /\ UNCHANGED <<watcherVars, asks, alive, hasWatcher, mainPc, listeners, acceptLoop,
                   reloadClients, socket, task, lateAccepts, observed, otherVars>>

\* `await re.respondWith(...)` settles.  A request event can be answered once:
\* a second respondWith on it rejects.
RespondDone(c) ==
    /\ alive
    /\ \E k \in Handling(c) :
         LET r == reqs[c][k] IN
         /\ r.phase \in {"respond200", "respond404", "respondUpgrade"}
         /\ \E ok \in (IF r.attempt = 1 THEN BOOLEAN ELSE {FALSE}) :
              CASE ok /\ r.phase = "respondUpgrade" ->
                     \* line 136 done; the upgraded connection yields no
                     \* further request
                     /\ reqs' = [reqs EXCEPT ![c][k].phase = "responded"]
                     /\ socket' = [socket EXCEPT ![c] =
                                     IF @ = "connecting" THEN "open" ELSE @]
                     /\ task' = [task EXCEPT ![c] = "upgraded"]
                     /\ UNCHANGED <<alive, acceptLoop>>
                [] ok /\ r.phase # "respondUpgrade" ->
                     \* lines 156 / 160, then back to line 127
                     /\ reqs' = [reqs EXCEPT ![c][k].phase = "responded"]
                     /\ task' = [task EXCEPT ![c] =
                                   IF Handling(c) = {k} THEN "awaitRequest" ELSE @]
                     /\ UNCHANGED <<socket, alive, acceptLoop>>
                [] ~ok /\ r.phase # "respond404" ->
                     \* caught at line 158: respondWith of the 404
                     /\ reqs' = [reqs EXCEPT ![c][k] =
                           [@ EXCEPT !.phase = "respond404", !.attempt = 2,
                                     !.status = 404, !.body = ""]]
                     /\ UNCHANGED <<socket, task, alive, acceptLoop>>
                [] ~ok /\ r.phase = "respond404" ->
                     \* line 159 throws inside the catch block
                     /\ reqs' = [reqs EXCEPT ![c][k].phase = "failed"]
                     /\ TaskError(c)
                     /\ UNCHANGED socket
    /\ UNCHANGED <<watcherVars, asks, hasWatcher, mainPc, listeners, reloadClients,
                   lateAccepts, observed, otherVars>>

\* The request stream of the connection ends (the client is gone, or the
\* connection was upgraded): the for-await loop and the task complete.
ConnEnd(c) ==
    /\ alive
    /\ task[c] \in {"awaitRequest", "upgraded"}
    /\ task' = [task EXCEPT ![c] = "ended"]
    /\ UNCHANGED <<watcherVars, asks, alive, hasWatcher, mainPc, listeners, acceptLoop,
                   reloadClients, socket, reqs, lateAccepts, observed, otherVars>>

\* The request stream of the connection throws (protocol or transport error).
ConnError(c) ==
    /\ alive
    /\ task[c] \in {"awaitRequest", "upgraded"}
    /\ TaskError(c)
    /\ UNCHANGED <<watcherVars, asks, hasWatcher, mainPc, listeners, reloadClients,
                   socket, reqs, lateAccepts, observed, otherVars>>

\* A close listener that drops the last element.
CloseListenerPop(c) == SubSeq(reloadClients, 1, Len(reloadClients) - 1)

\* A close listener whose result is thrown away (a filter not assigned back).
CloseListenerKeeps(c) == reloadClients

\* The "close" listener of lines 133-135.
CloseListener(c) == Splice1(reloadClients, IndexOf(reloadClients, c))

\* The socket of connection c fires "close"; a WebSocket does so once.
SocketClose(c) ==
    /\ alive
    /\ socket[c] \in {"connecting", "open"}
    /\ socket' = [socket EXCEPT ![c] = "closed"]
    /\ reloadClients' = CloseListener(c)
    /\ UNCHANGED <<watcherVars, asks, alive, hasWatcher, mainPc, listeners, acceptLoop,
                   task, reqs, lateAccepts, observed, otherVars>>

\* A Server constructed with or without a Watcher (lines 90-100; its Watcher
\* has no abort signal and the default delay, line 95), before serve(), in an
\* environment that delivers `events` raw events and whose clients ask for
\* `kinds`.
InitServer(events, kinds, watch) ==
    /\ now = 0
    /\ fsBudget = events
    /\ fsTimes = ServerArrivalTimes
    /\ minimumDelayMS = DefaultMinimumDelayMS
    /\ hasAbortSignal = FALSE
    /\ aborted = FALSE
    /\ watching = FALSE
    /\ watchCalls = 0
    /\ sessions = <<>>
    /\ timers = <<>>
    /\ arrivals = <<>>
    /\ notified = <<>>
    /\ asks = kinds
    /\ alive = TRUE
    /\ hasWatcher \in watch
    /\ mainPc = "start"
    /\ listeners = 0
    /\ acceptLoop = "none"
    /\ reloadClients = <<>>
    /\ socket = [c \in Conns |-> "none"]
    /\ task = [c \in Conns |-> "none"]
    /\ reqs = [c \in Conns |-> <<>>]
    /\ lateAccepts = {}
    /\ sends = <<>>
    /\ sentCount = [c \in Conns |-> 0]
    /\ streamFailed = FALSE

\* The program (lines 178-189): watch: true.
Init == InitServer(MaxServerEvents, RequestKinds, {TRUE}) /\ served = NotServed

Next ==
    \/ Serve
    \/ \E c \in Conns : Accept(c)
    \/ \E c \in Conns : NextRequest(c)
    \/ \E c \in Conns : ReadDone(c)
    \/ \E c \in Conns : RespondDone(c)
    \/ \E c \in Conns : ConnEnd(c)
    \/ \E c \in Conns : ConnError(c)
    \/ \E c \in Conns : SocketClose(c)
    \/ RawEvent
    \/ Update
    \/ Advance

Spec == Init /\ [][Next]_vars

\* A Server, with or without a Watcher, and its clients while nothing changes
\* under the root: no raw event arrives.
InitHttp == InitServer(0, RequestKinds, BOOLEAN) /\ served = NotServed

NextHttp ==
    \/ Serve
    \/ \E c \in Conns : Accept(c)
    \/ \E c \in Conns : NextRequest(c)
    \/ \E c \in Conns : ReadDone(c)
    \/ \E c \in Conns : RespondDone(c)
    \/ \E c \in Conns : ConnEnd(c)
    \/ \E c \in Conns : ConnError(c)
    \/ \E c \in Conns : SocketClose(c)

SpecHttp == InitHttp /\ [][NextHttp]_vars

\* The program and its push clients: every request is for the reload path.
InitPush == InitServer(MaxServerEvents, PushRequestKinds, {TRUE}) /\ served = NotServed

NextPush ==
    \/ Serve
    \/ \E c \in Conns : Accept(c)
    \/ \E c \in Conns : NextRequest(c)
    \/ \E c \in Conns : RespondDone(c)
    \/ \E c \in Conns : ConnEnd(c)
    \/ \E c \in Conns : ConnError(c)
    \/ \E c \in Conns : SocketClose(c)
    \/ RawEvent
    \/ Update
    \/ Advance

SpecPush == InitPush /\ [][NextPush]_vars

\* The stream of Deno.watchFs fails inside `for await` (line 41).  The
\* iterator either reports the end of the stream, and the loop and its task
\* complete, or rejects: the task of lines 40-46 has no catch and nothing
\* awaits it, so the rejection is unhandled and ends the process.  Which of
\* the two a failure gives is up to the runtime.
StreamFails ==
    /\ alive
    /\ \E s \in DOMAIN sessions :
         /\ sessions[s].open
         /\ sessions' = [sessions EXCEPT ![s].open = FALSE]
    /\ \E rejects \in BOOLEAN :
         /\ alive' = ~rejects
         /\ acceptLoop' = IF rejects THEN "none" ELSE acceptLoop
    /\ streamFailed' = TRUE
    /\ UNCHANGED <<now, fsBudget, fsTimes, minimumDelayMS, hasAbortSignal, aborted,
                   watching, watchCalls, timers, arrivals, notified>>
    /\ UNCHANGED <<asks, hasWatcher, mainPc, listeners, reloadClients, socket, task,
                   reqs, lateAccepts, observed, served>>

\* The program in an environment whose filesystem monitoring can fail.
NextStreamFailure == Next \/ StreamFails

SpecStreamFailure == Init /\ [][NextStreamFailure]_vars

\* The program, clients that only open push channels and whose connections
\* and sockets stay up, and raw events far enough apart for several
\* notifications.
UpgradeKinds == {rq \in RequestKinds : rq.path = reloadEventPath /\ rq.ws}

BroadcastArrivalTimes == {0, 250}

InitBroadcast ==
    /\ now = 0
    /\ fsBudget = MaxBroadcastEvents
    /\ fsTimes = BroadcastArrivalTimes
    /\ minimumDelayMS = DefaultMinimumDelayMS
    /\ hasAbortSignal = FALSE
    /\ aborted = FALSE
    /\ watching = FALSE
    /\ watchCalls = 0
    /\ sessions = <<>>
    /\ timers = <<>>
    /\ arrivals = <<>>
    /\ notified = <<>>
    /\ asks = UpgradeKinds
    /\ alive = TRUE
    /\ hasWatcher = TRUE
    /\ mainPc = "start"
    /\ listeners = 0
    /\ acceptLoop = "none"
    /\ reloadClients = <<>>
    /\ socket = [c \in Conns |-> "none"]
    /\ task = [c \in Conns |-> "none"]
    /\ reqs = [c \in Conns |-> <<>>]
    /\ lateAccepts = {}
    /\ sends = <<>>
    /\ sentCount = [c \in Conns |-> 0]
    /\ streamFailed = FALSE
    /\ served = NotServed

NextBroadcast ==
    \/ Serve
    \/ \E c \in Conns : Accept(c)
    \/ \E c \in Conns : NextRequest(c)
    \/ \E c \in Conns : RespondDone(c)
    \/ RawEvent
    \/ Update
    \/ Advance

SpecBroadcast == InitBroadcast /\ [][NextBroadcast]_vars

\* A Watcher constructed with any options (lines 18-23), used on its own.
InitWatcher ==
    /\ now = 0
    /\ fsBudget = MaxEvents
    /\ fsTimes = ArrivalTimes
    /\ minimumDelayMS \in DelayOptions
    /\ hasAbortSignal \in BOOLEAN
    /\ aborted = FALSE
    /\ watching = FALSE
    /\ watchCalls = 0
    /\ sessions = <<>>
    /\ timers = <<>>
    /\ arrivals = <<>>
    /\ notified = <<>>
    /\ asks = {}
    /\ alive = TRUE
    /\ hasWatcher = FALSE
    /\ mainPc = "start"
    /\ listeners = 0
    /\ acceptLoop = "none"
    /\ reloadClients = <<>>
    /\ socket = [c \in Conns |-> "none"]
    /\ task = [c \in Conns |-> "none"]
    /\ reqs = [c \in Conns |-> <<>>]
    /\ lateAccepts = {}
    /\ sends = <<>>
    /\ sentCount = [c \in Conns |-> 0]
    /\ served = NotServed
    /\ streamFailed = FALSE

NextWatcher ==
    \/ Watch
    \/ Abort
    \/ RawEvent
    \/ Update
    \/ Advance

SpecWatcher == InitWatcher /\ [][NextWatcher]_vars

\* The Watcher on an event loop that keeps running: a timer that is due has its
\* callback run, and time passes.  The filesystem is not obliged to deliver
\* anything, and delivers MaxEvents raw events at most.
SpecWatcherLive == SpecWatcher /\ WF_vars(Update) /\ WF_vars(Advance)

\* ------------------------------------------------------- file responses

\* Server.reloadScript (line 99), one unit of text.
reloadScript == "<script>...</script>"

\* A file is a sequence of runs of bytes: some text without "</body>", the
\* closing tag itself, the reload script (a page saved from this server has
\* it), the UTF-8 byte order mark EF BB BF, and a byte that is not UTF-8.
\* "</body>" has no proper prefix that is also a suffix, so its occurrences
\* in a text never overlap and searching units is searching the text.
FileUnits == {"x", "</body>", reloadScript, "BOM", "bad"}

RECURSIVE SeqsUpTo(_, _)
SeqsUpTo(U, n) ==
    IF n = 0 THEN {<<>>}
    ELSE LET shorter == SeqsUpTo(U, n - 1)
         IN  shorter \cup {Append(t, u) : t \in shorter, u \in U}

Contents == SeqsUpTo(FileUnits, MaxFileLen)

\* new TextDecoder().decode (lines 88, 144): UTF-8, not fatal, BOM not
\* ignored: a leading byte order mark is dropped, a later one is U+FEFF, and
\* bytes that are not UTF-8 become U+FFFD.
Decode(content) ==
    LET char(b) == CASE b = "BOM" -> "U+FEFF"
                     [] b \in {"bad", "EFBFBD"} -> "U+FFFD"
                     [] OTHER -> b
        rest == IF content # <<>> /\ content[1] = "BOM" THEN Tail(content)
                ELSE content
    IN  [i \in DOMAIN rest |-> char(rest[i])]

\* new TextEncoder().encode (lines 87, 151): U+FFFD is encoded as EF BF BD.
Encode(text) ==
    LET bytes(ch) == CASE ch = "U+FEFF" -> "BOM"
                       [] ch = "U+FFFD" -> "EFBFBD"
                       [] OTHER -> ch
    IN  [i \in DOMAIN text |-> bytes(text[i])]

\* The search taking the first occurrence (String.indexOf).
LastIndexOfFirst(text, u) ==
    IF \E i \in DOMAIN text : text[i] = u
    THEN Min({i \in DOMAIN text : text[i] = u}) - 1
    ELSE -1

\* String.lastIndexOf (line 145): the 0-based index of the last occurrence,
\* or -1.
LastIndexOf(text, u) ==
    IF \E i \in DOMAIN text : text[i] = u
    THEN -Min({-i : i \in {j \in DOMAIN text : text[j] = u}}) - 1
    ELSE -1

\* text.substr(0, index) and text.substr(index), for 0 <= index <= length.
SubstrTo(text, index) == SubSeq(text, 1, index)
SubstrFrom(text, index) == SubSeq(text, index + 1, Len(text))

\* Lines 144-151.
InsertReloadScript(content) ==
    LET text == Decode(content)
        index == LastIndexOf(text, "</body>")
    IN  Encode(IF index >= 0
               THEN SubstrTo(text, index) \o <<reloadScript>> \o SubstrFrom(text, index)
               ELSE text \o <<reloadScript>>)

\* The body of the 200 response for the file read from `path` (lines 141-155).
ResponseContent(path, content) ==
    IF hasWatcher /\ EndsWith(path, ".html")
    THEN InsertReloadScript(content)
    ELSE content

\* Deno.readFile(path) has returned `content` (line 139).
FileReads == {[state |-> "read", path |-> p, content |-> b, body |-> <<>>] :
                 p \in Files, b \in Contents}

\* Lines 141-155 for that file.
ServeFile ==
    /\ served.state = "read"
    /\ served' = [served EXCEPT !.state = "responded",
                                !.body = ResponseContent(served.path, served.content)]
    /\ UNCHANGED <<watcherVars, serverVars, observed, streamFailed>>

\* One file request that read its file, in a Server with or without a Watcher.
InitFile == InitServer(0, {}, BOOLEAN) /\ served \in FileReads

NextFile == ServeFile

SpecFile == InitFile /\ [][NextFile]_vars

\* ------------------------------------------------- observations (Watcher)

\* Arrival times of the raw events ingested by activation s, in order.
EventsOf(s) ==
    LET sel == SelectSeq(arrivals, LAMBDA a : a.session = s)
    IN [i \in DOMAIN sel |-> sel[i].at]

\* Dispatch times of the notifications of activation s, in order.
NotifsOf(s) ==
    LET sel == SelectSeq(notified, LAMBDA n : n.session = s)
    IN [i \in DOMAIN sel |-> sel[i].at]

\* Debounce timers of activation s not yet fired.
PendingOf(s) == Len(SelectSeq(timers, LAMBDA t : t.session = s))

Gaps(ts) == {ts[i + 1] - ts[i] : i \in 1 .. Len(ts) - 1}

\* Last arrival of every burst: a burst ends where the next event is more
\* than d later.
BurstEnds(ts, d) ==
    LET ends == SelectSeq([i \in DOMAIN ts |-> i],
                          LAMBDA i : i = Len(ts) \/ ts[i + 1] - ts[i] > d)
    IN [k \in DOMAIN ends |-> ts[ends[k]]]

\* C1 as amended: raw events of one activation whose consecutive gaps are all
\* strictly below the debounce interval give no notification while a timer of
\* theirs is pending, and then exactly one, at (last arrival) + interval.
C1_OneNotificationPerTightBurst ==
    \A s \in DOMAIN sessions :
        LET ev == EventsOf(s) IN
        (ev # <<>> /\ \A g \in Gaps(ev) : g < minimumDelayMS)
            => NotifsOf(s) = IF PendingOf(s) > 0
                               THEN <<>>
                               ELSE <<ev[Len(ev)] + minimumDelayMS>>

\* C1 as stated: the same with gaps of at most the interval.
C1_Original ==
    \A s \in DOMAIN sessions :
        LET ev == EventsOf(s) IN
        (ev # <<>> /\ \A g \in Gaps(ev) : g <= minimumDelayMS)
            => NotifsOf(s) = IF PendingOf(s) > 0
                               THEN <<>>
                               ELSE <<ev[Len(ev)] + minimumDelayMS>>

\* The scenario of the claim: interval 200, events at 0, 50, 120, one
\* notification at 320.
C1_Witness ==
    /\ minimumDelayMS = 200
    /\ \E s \in DOMAIN sessions :
         /\ EventsOf(s) = <<0, 50, 120>>
         /\ PendingOf(s) = 0
         /\ NotifsOf(s) = <<320>>

C8_AbortKeepsTimers ==
    [][ /\ (~aborted /\ aborted') =>
              /\ ~watching'
              /\ \A s \in DOMAIN sessions' : ~sessions'[s].open
              /\ timers' = timers
              /\ \A s \in DOMAIN sessions :
                    sessions'[s].outstanding = sessions[s].outstanding
        /\ (arrivals' # arrivals) =>
              sessions[arrivals'[Len(arrivals')].session].open
        /\ (timers # <<>> /\ timers' = Tail(timers)
               /\ sessions[Head(timers).session].outstanding = 1)
              => /\ Len(notified') = Len(notified) + 1
                 /\ notified'[Len(notified')].afterAbort = aborted
      ]_vars

\* A timer scheduled before the abort has dispatched after it.
C8_Witness ==
    /\ aborted
    /\ ~watching
    /\ \E i \in DOMAIN notified : notified[i].afterAbort

\* C9 as amended: watch() starts monitoring only when the Watcher is not
\* watching, so at most one stream is open at a time and a call made while
\* watching starts nothing; a call made after the abort starts a new stream.
C9_StartsOnlyWhenNotWatching ==
    /\ Cardinality({s \in DOMAIN sessions : sessions[s].open}) <= 1
    /\ watching <=> StreamOpen
    /\ Len(sessions) <= (IF aborted THEN 2 ELSE 1)
    /\ Len(sessions) <= watchCalls

\* C9 as stated: monitoring is started at most once.
C9_Original == Len(sessions) <= 1

\* watch() was called again while watching and started nothing.
C9_Witness ==
    /\ watchCalls >= 2
    /\ watching
    /\ ~aborted
    /\ Len(sessions) = 1

\* -------------------------------------------------- observations (Server)

InList(arr, x) == \E i \in DOMAIN arr : arr[i] = x

Count(arr, x) == Cardinality({i \in DOMAIN arr : arr[i] = x})

\* The send calls made on socket c by the latest dispatch.
SendsTo(c) == Count([i \in DOMAIN sends |-> sends[i].socket], c)

\* C3: the step that dispatches a notification runs the server's listener,
\* which calls send exactly once on each socket that is in reloadClients at
\* that moment and on no other socket.
C3_BroadcastReachesExactlyTheClients ==
    [][ Len(notified') > Len(notified) =>
          /\ listeners > 0
          /\ \A c \in Conns :
               SendsTo(c)' = IF InList(reloadClients, c) THEN 1 ELSE 0
          /\ \A c \in Conns : sentCount'[c] = sentCount[c] + SendsTo(c)'
      ]_vars

\* A broadcast to two registered clients, one of which could not be sent to.
C3_Witness ==
    /\ Len(notified) > 0
    /\ Len(sends) = 2
    /\ \A c \in Conns : InList(reloadClients, c) => SendsTo(c) = 1
    /\ \E i \in DOMAIN sends : ~sends[i].ok
    /\ \E i \in DOMAIN sends : sends[i].ok

\* C4: the step that handles the close of socket c takes c out of
\* reloadClients and leaves every other client in it; from then on c is never
\* in reloadClients and no send is attempted to it.
C4_CloseRemovesOnlyThatClient ==
    [][ \A c \in Conns :
          /\ (socket[c] # "closed" /\ socket'[c] = "closed")
                => /\ ~InList(reloadClients', c)
                   /\ \A d \in Conns \ {c} :
                        Count(reloadClients', d) = Count(reloadClients, d)
          /\ socket[c] = "closed"
                => /\ ~InList(reloadClients', c)
                   /\ sentCount'[c] = sentCount[c]
                   /\ (Len(notified') > Len(notified) => SendsTo(c)' = 0)
      ]_vars

\* Two clients registered, the first closed, and the broadcast that followed
\* went to the second only.
C4_Witness ==
    \E c, d \in Conns :
        /\ c < d
        /\ socket[c] = "closed"
        /\ socket[d] = "open"
        /\ reloadClients = <<d>>
        /\ Len(notified) = 1
        /\ sentCount[c] = 0
        /\ sentCount[d] = 1
        /\ sends = <<[socket |-> d, ok |-> TRUE]>>

\* C5: a request whose read failed is answered only with status 404 and an
\* empty body; the step in which the read fails changes nothing but that
\* request (reloadClients, the sockets and every other connection are as
\* before); and once the 404 is delivered the connection awaits its next
\* request.
C5_ReadFailureIs404 ==
    /\ [](\A c \in Conns : \A k \in DOMAIN reqs[c] :
            reqs[c][k].readFailed =>
                /\ reqs[c][k].status = 404
                /\ reqs[c][k].body = ""
                /\ reqs[c][k].phase \in {"respond404", "responded", "failed"})
    /\ [][ \A c \in Conns : \A k \in DOMAIN reqs[c] :
             /\ (~reqs[c][k].readFailed /\ reqs'[c][k].readFailed)
                   => /\ reqs'[c][k].phase = "respond404"
                      /\ reloadClients' = reloadClients
                      /\ socket' = socket
                      /\ task' = task
                      /\ alive' /\ acceptLoop' = acceptLoop
                      /\ \A d \in Conns \ {c} : reqs'[d] = reqs[d]
             /\ (reqs[c][k].readFailed /\ reqs[c][k].phase = "respond404"
                   /\ reqs'[c][k].phase = "responded")
                   => /\ task'[c] = "awaitRequest"
                      /\ reloadClients' = reloadClients
                      /\ \A d \in Conns \ {c} : task'[d] = task[d] /\ reqs'[d] = reqs[d]
         ]_vars

\* A connection answered 404 for a failed read and then served its next
\* request with 200.
C5_Witness ==
    \E c \in Conns :
        /\ Len(reqs[c]) = 2
        /\ reqs[c][1].readFailed
        /\ reqs[c][1].phase = "responded"
        /\ reqs[c][1].status = 404
        /\ reqs[c][1].body = ""
        /\ reqs[c][2].phase = "responded"
        /\ reqs[c][2].status = 200

\* A request of connection c fails in this step: a respondWith rejects, or the
\* task of c ends with an error.
FailureStep(c) ==
    \/ task[c] # "failed" /\ task'[c] = "failed"
    \/ \E k \in DOMAIN reqs[c] :
         /\ reqs[c][k].phase \in {"respond200", "respondUpgrade"}
         /\ reqs'[c][k].phase = "respond404"
    \/ \E k \in DOMAIN reqs[c] :
         ~reqs[c][k].readFailed /\ reqs'[c][k].readFailed

\* C6: once serve() has run the process is alive and the accept loop is
\* running, whatever has failed; a failure on connection c changes no other
\* connection's task or requests.
C6_FailuresStayInTheirConnection ==
    /\ [](mainPc = "returned" => alive /\ acceptLoop = "running")
    /\ [][ \A c \in Conns :
             FailureStep(c) =>
                /\ alive' /\ acceptLoop' = "running"
                /\ \A d \in Conns \ {c} : task'[d] = task[d] /\ reqs'[d] = reqs[d]
         ]_vars

\* After the task of one connection failed, another connection was accepted
\* and served a request.
C6_Witness ==
    \E c, d \in Conns :
        /\ task[c] = "failed"
        /\ d \in lateAccepts
        /\ reqs[d] # <<>>
        /\ reqs[d][1].phase = "responded"
        /\ reqs[d][1].status = 200

\* C7 as amended: serve() starts listening and returns at once; whenever the
\* accept loop runs or a connection is being handled, serve() has returned.
C7_ServeReturnsAtOnce ==
    (acceptLoop = "running" \/ \E c \in Conns : task[c] # "none")
        => mainPc = "returned"

\* C7 as stated: while the server accepts connections, control has not come
\* back to the caller of serve().
C7_Original == acceptLoop = "running" => mainPc # "returned"

\* A request is being handled, and serve() returned long ago.
C7_Witness ==
    /\ mainPc = "returned"
    /\ \E c \in Conns : task[c] = "handling"

\* C10: on one connection a request is read only when every earlier request
\* of that connection has been answered, so at most one is being handled.
C10_OneRequestAtATimePerConnection ==
    \A c \in Conns :
        /\ Cardinality(Handling(c)) <= 1
        /\ \A k \in DOMAIN reqs[c] :
             k < Len(reqs[c]) => reqs[c][k].phase = "responded"
        /\ task[c] = "handling" <=> Handling(c) # {}

\* A second request is being handled on a connection whose first was answered.
C10_Witness ==
    \E c \in Conns :
        /\ Len(reqs[c]) = 2
        /\ reqs[c][1].phase = "responded"
        /\ reqs[c][2].phase \notin {"responded", "failed"}

\* ------------------------------------------- observations (file responses)

\* The text of the served file.
FileText == Decode(served.content)

\* `body` is the encoding of `text` with the reload script put in at 0-based
\* position k.
InsertedAt(body, text, k) ==
    body = Encode(SubSeq(text, 1, k) \o <<reloadScript>> \o SubSeq(text, k + 1, Len(text)))

\* Position k is just before the last "</body>" of text, or the end of a
\* text without one.
BeforeLastBodyEnd(text, k) ==
    IF InList(text, "</body>")
    THEN /\ k < Len(text)
         /\ text[k + 1] = "</body>"
         /\ \A j \in k + 2 .. Len(text) : text[j] # "</body>"
    ELSE k = Len(text)

\* C11 (as amended): for a file read from a path ending in ".html" with
\* watching enabled, the response body is the encoding of the file's text with
\* the reload script inserted once, immediately before the last "</body>" if
\* there is one and at the end otherwise, and nothing else changed: it holds
\* the script one more time than the file's text does.  For any other path,
\* or with watching disabled, the body is the file, byte for byte.
C11_ScriptInsertedOnce ==
    served.state = "responded" =>
        IF hasWatcher /\ EndsWith(served.path, ".html")
        THEN /\ \E k \in 0 .. Len(FileText) :
                    /\ InsertedAt(served.body, FileText, k)
                    /\ BeforeLastBodyEnd(FileText, k)
             /\ Count(served.body, reloadScript) = Count(served.content, reloadScript) + 1
        ELSE served.body = served.content

\* C11 as stated: the body of such a response holds the reload script exactly
\* once.
C11_Original ==
    (served.state = "responded" /\ hasWatcher /\ EndsWith(served.path, ".html")) =>
        /\ \E k \in 0 .. Len(FileText) :
                /\ InsertedAt(served.body, FileText, k)
                /\ BeforeLastBodyEnd(FileText, k)
        /\ Count(served.body, reloadScript) = 1

\* A page with two "</body>" served with the script before the second one.
C11_Witness ==
    /\ served.state = "responded"
    /\ hasWatcher
    /\ served.path = root \o <<"/", "index", ".html">>
    /\ served.content = <<"</body>", "x", "</body>">>
    /\ served.body = <<"</body>", "x", reloadScript, "</body>">>

\* -------------------------------------------- observations (Watcher, bursts)

\* Timer callbacks of activation s that have run.
CallbacksRun(s) == Len(EventsOf(s)) - PendingOf(s)

\* The step ingests a raw event of activation s.
Ingests(s) ==
    /\ Len(arrivals') = Len(arrivals) + 1
    /\ arrivals'[Len(arrivals')].session = s

\* C12: a raw event that arrives after callbacks of its activation have run
\* and while `outstanding` is nonzero joins the burst: its step adds it to
\* `outstanding` and to the pending timers and dispatches nothing; no step
\* dispatches "updated" while a timer of an activation whose callbacks have
\* run is pending, so none is dispatched before that event's callback and
\* every other pending one have run; and the step that brings `outstanding`
\* back to 0 dispatches exactly one.
C12_LateEventJoinsTheBurst ==
    [][/\ \A s \in DOMAIN sessions :
            (Ingests(s) /\ sessions[s].outstanding > 0 /\ CallbacksRun(s) > 0) =>
                /\ notified' = notified
                /\ sessions'[s].outstanding = sessions[s].outstanding + 1
                /\ PendingOf(s)' = PendingOf(s) + 1
       /\ notified' # notified =>
            /\ Len(notified') = Len(notified) + 1
            /\ SubSeq(notified', 1, Len(notified)) = notified
            /\ \A s \in DOMAIN sessions : PendingOf(s)' > 0 => CallbacksRun(s)' = 0
       /\ \A s \in DOMAIN sessions :
            (sessions[s].outstanding > 0 /\ sessions'[s].outstanding = 0) =>
                /\ Len(notified') = Len(notified) + 1
                /\ notified'[Len(notified')].session = s
      ]_vars

\* Interval 200, events at 120, 320 and 321: the event at 320 came before the
\* callback of the first one ran, the event at 321 after it, and the only
\* notification is the one at 521.
C12_Witness ==
    /\ minimumDelayMS = 200
    /\ arrivals = <<[at |-> 120, session |-> 1], [at |-> 320, session |-> 1],
                    [at |-> 321, session |-> 1]>>
    /\ timers = <<>>
    /\ Len(notified) = 1
    /\ notified[1].at = 521

\* ------------------------------------------- observations (broadcast set)

\* arr without its first x.
WithoutFirst(arr, x) ==
    LET at == Min({i \in DOMAIN arr : arr[i] = x})
    IN  SubSeq(arr, 1, at - 1) \o SubSeq(arr, at + 1, Len(arr))

\* C13: no socket is in reloadClients twice; a socket leaves reloadClients
\* only in the step that handles its close, and that step takes out the first
\* occurrence of that socket and nothing else; a closed socket is not in
\* reloadClients and is not registered again, so each is removed once.
C13_EachClientOnceAndRemovedOnce ==
    /\ [](\A c \in Conns :
            /\ Count(reloadClients, c) <= 1
            /\ socket[c] = "closed" => ~InList(reloadClients, c))
    /\ [][ \A c \in Conns :
             /\ (InList(reloadClients, c) /\ ~InList(reloadClients', c))
                    => (socket[c] # "closed" /\ socket'[c] = "closed")
             /\ (socket[c] # "closed" /\ socket'[c] = "closed")
                    => /\ InList(reloadClients, c)
                       /\ reloadClients' = WithoutFirst(reloadClients, c)
             /\ socket[c] = "closed" => socket'[c] = "closed"
         ]_vars

\* Two sockets were registered and the one registered last has closed: the
\* other one is still there.
C13_Witness ==
    \E c, d \in Conns :
        /\ c < d
        /\ socket[c] = "open"
        /\ socket[d] = "closed"
        /\ task[d] = "upgraded"
        /\ reloadClients = <<c>>

\* C14: in a broadcast in which a send fails, the sends after the failing one
\* are still attempted, one to each remaining element of reloadClients; the
\* step leaves the failing socket in reloadClients and changes nothing of the
\* server (reloadClients, sockets, connections, requests); and a socket that
\* cannot be sent to leaves reloadClients only in the step that handles its
\* close.
C14_SendFailureIsIgnored ==
    [][/\ \A i \in DOMAIN sends' :
            (Len(notified') > Len(notified) /\ ~sends'[i].ok) =>
                /\ Len(sends') = Len(reloadClients)
                /\ \A j \in i + 1 .. Len(reloadClients) :
                       sends'[j].socket = reloadClients[j]
                /\ InList(reloadClients', sends'[i].socket)
                /\ serverVars' = serverVars
       /\ \A c \in Conns :
            (InList(reloadClients, c) /\ socket[c] # "open" /\ ~InList(reloadClients', c))
                => (socket[c] # "closed" /\ socket'[c] = "closed")
      ]_vars

\* The send to the first client failed, the send to the second one was made,
\* and both are still registered.
C14_Witness ==
    /\ Len(notified) = 1
    /\ Len(sends) = 2
    /\ ~sends[1].ok
    /\ sends[2].ok
    /\ reloadClients = <<sends[1].socket, sends[2].socket>>
    /\ socket[sends[1].socket] = "connecting"

\* C15: a connection whose latest request is one for the reload path whose
\* upgrade failed (it is answered with 404, whether upgradeWebSocket threw or
\* the delivery of the upgrade response was rejected) has no socket in
\* reloadClients; and in a Server without a Watcher a request for that path is
\* resolved as a file under the root and reloadClients stays empty.
C15_RegisteredOnlyOnSuccess ==
    \A c \in Conns : \A k \in DOMAIN reqs[c] :
        LET r == reqs[c][k] IN
        r.path = reloadEventPath =>
            /\ (hasWatcher /\ k = Len(reqs[c]) /\ r.status = 404)
                    => ~InList(reloadClients, c)
            /\ ~hasWatcher => /\ r.resolved = ResolvePath(r.path)
                              /\ reloadClients = <<>>

\* ------------------------------------------- observations (broadcasts)

\* C16: a notification is dispatched only by the timer callback that brings
\* `outstanding` to 0, and that same step makes the whole broadcast, one send
\* attempt per element of reloadClients; a step that dispatches nothing makes
\* no send.  So the broadcast of a notification is complete before any later
\* notification is dispatched, and the sends of two broadcasts never mix.
C16_BroadcastCompleteBeforeNextNotification ==
    [][/\ notified' # notified =>
            /\ Len(notified') = Len(notified) + 1
            /\ timers # <<>>
            /\ timers' = Tail(timers)
            /\ sessions[Head(timers).session].outstanding = 1
            /\ sessions'[Head(timers).session].outstanding = 0
            /\ Len(sends') = Len(reloadClients)
            /\ \A c \in Conns : sentCount'[c] = sentCount[c] + SendsTo(c)'
       /\ notified' = notified => (sends' = sends /\ sentCount' = sentCount)
      ]_vars

\* Two notifications: the first was broadcast to the one client registered
\* then, the second to both clients.
C16_Witness ==
    /\ Len(notified) = 2
    /\ notified[1].at < notified[2].at
    /\ Len(sends) = 2
    /\ \E c, d \in Conns :
         /\ reloadClients = <<c, d>>
         /\ sentCount[c] = 2
         /\ sentCount[d] = 1

\* ------------------------------------------- observations (Watcher, progress)

\* The k-th raw event ingested has been followed by a notification of its
\* activation, dispatched no earlier than its own timer's deadline.
Notified(k) ==
    /\ Len(arrivals) >= k
    /\ \E n \in DOMAIN notified :
         /\ notified[n].session = arrivals[k].session
         /\ notified[n].at >= arrivals[k].at + minimumDelayMS

\* The closure of activation s has callbacks to wait for.
Outstanding(s) == s \in DOMAIN sessions /\ sessions[s].outstanding > 0

\* C17: every raw event ingested adds one to `outstanding` and schedules a
\* timer of its own, due minimumDelayMS after its arrival; and with raw events
\* that stop and timers that fire, every raw event is eventually followed by a
\* notification, and an `outstanding` that is above 0 eventually is 0 again.
C17_EveryEventIsCountedAndNotified ==
    /\ [][ \A s \in DOMAIN sessions :
             Ingests(s) =>
                /\ sessions'[s].outstanding = sessions[s].outstanding + 1
                /\ timers' = Append(timers, [due |-> arrivals'[Len(arrivals')].at
                                                       + minimumDelayMS,
                                             session |-> s])
         ]_vars
    /\ \A k \in 1 .. MaxEvents : (Len(arrivals) >= k) ~> Notified(k)
    /\ \A s \in 1 .. MaxWatchCalls : Outstanding(s) ~> ~Outstanding(s)

\* Three raw events in two bursts, every timer fired, two notifications.
C17_Witness ==
    /\ Len(arrivals) = 3
    /\ timers = <<>>
    /\ \A s \in DOMAIN sessions : sessions[s].outstanding = 0
    /\ Len(notified) = 2
    /\ \A k \in 1 .. 3 : Notified(k)

\* ------------------------------------------- observations (stream failure)

\* C18: once the stream of raw events has failed the process is still alive
\* and its accept loop still runs, no "updated" is dispatched any more, and no
\* new stream is opened.
C18_StreamFailureIsSilent ==
    [][ streamFailed' =>
          /\ alive'
          /\ acceptLoop' = "running"
          /\ streamFailed => /\ notified' = notified
                             /\ Len(sessions') = Len(sessions)
      ]_vars

\* ------------------------------------------- observations (Watcher, counter)

\* C19 (as amended): in every state the `outstanding` of each activation of
\* watch() is the number of its timers scheduled and not yet fired, so it is
\* never negative; a notification is dispatched only in a step that leaves
\* no timer of the dispatching activation pending; and there are never more
\* notifications than raw events ingested.
C19_OutstandingCountsPendingTimers ==
    /\ [](/\ \A s \in DOMAIN sessions :
               /\ sessions[s].outstanding = PendingOf(s)
               /\ sessions[s].outstanding >= 0
          /\ Len(timers) <= Len(arrivals)
          /\ Len(notified) <= Len(arrivals))
    /\ [][ notified' # notified =>
             /\ Len(notified') = Len(notified) + 1
             /\ \A s \in DOMAIN sessions :
                  notified'[Len(notified')].session = s => PendingOf(s)' = 0
         ]_vars

\* C19 as stated: a notification is dispatched only in a step that leaves no
\* debounce timer pending at all.
C19_Original ==
    [][ notified' # notified => timers' = <<>> ]_vars

\* A notification dispatched while `outstanding` had just gone from 2 to 1 to
\* 0: three events ingested, two timers fired without a dispatch, one
\* notification.
C19_Witness ==
    /\ Len(arrivals) = 3
    /\ Len(notified) = 1
    /\ timers = <<>>
    /\ Len(sessions) = 1
    /\ sessions[1].outstanding = 0

\* C20: the step that makes a broadcast neither registers nor removes a
\* socket, and its sends go to the elements of reloadClients as they were when
\* it started, each once and in order; a step that changes reloadClients (an
\* upgrade or a close) makes no send.  So no registration or removal runs
\* between the first and the last send of a broadcast.
C20_BroadcastIteratesAFixedSet ==
    [][/\ notified' # notified =>
            /\ reloadClients' = reloadClients
            /\ socket' = socket
            /\ listeners > 0 =>
                 [i \in DOMAIN sends' |-> sends'[i].socket] = reloadClients
       /\ (reloadClients' # reloadClients \/ socket' # socket) =>
            (sends' = sends /\ sentCount' = sentCount /\ notified' = notified)
      ]_vars

\* A broadcast went to the two clients registered at the time, the first of
\* which could not be sent to; the second has closed since and only then left
\* reloadClients.
C20_Witness ==
    /\ Len(notified) = 1
    /\ Len(sends) = 2
    /\ ~sends[1].ok
    /\ reloadClients = <<sends[1].socket>>
    /\ socket[sends[2].socket] = "closed"
    /\ sentCount[sends[2].socket] = 1

====
